---------------------------- MODULE Spec2Model ----------------------------
(***************************************************************************)
(* A model of chroma's style engine (style.go): the Trilean flag, the      *)
(* StyleEntry value with its text grammar (String / ParseStyleEntry) and   *)
(* ancestor merge (Inherit), the StyleBuilder, the immutable Style with    *)
(* its layered resolution (get / Get / synthesise / Types / Has) and the   *)
(* XML wire codec (MarshalXML / UnmarshalXML / NewXMLStyle).               *)
(*                                                                         *)
(* Go strings are sequences of one-character strings, so that prefix       *)
(* tests, slicing, splitting and joining are computed as the code does.    *)
(* The Colour and TokenType types live outside style.go; they are          *)
(* modelled from the interface the specification gives for them.           *)
(***************************************************************************)
EXTENDS Integers, Sequences, FiniteSets, TLC

VARIABLES
    styles,     \* the heap of Style objects, by address 1..Len(styles)
    builder,    \* the StyleBuilder the caller holds: <<>> or <<b>>
    built,      \* history: the addresses of the Styles that Build returned
    wire,       \* the XML documents MarshalXML has written, with their source
    ret,        \* the last call: its name, its arguments and what it returned
    nops,       \* the number of calls made so far
    entryIn,    \* pure-function checks: the receiver entry
    ancIn,      \* pure-function checks: the ancestor list, oldest first
    out         \* pure-function checks: the last result

progVars == <<styles, builder, built, wire, ret, nops>>
pureVars == <<entryIn, ancIn, out>>
vars == <<styles, builder, built, wire, ret, nops, entryIn, ancIn, out>>

(***************************************************************************)
(* Bounds of the model.                                                    *)
(***************************************************************************)
NumColours == 2      \* set colours an input entry may carry
MaxAnc == 2          \* longest ancestor list handed to Inherit
MaxOps == 4          \* calls in one run of the builder / style life cycle

Nil == 0             \* the nil pointer

(***************************************************************************)
(* Go strings.                                                             *)
(***************************************************************************)
IsSpace(ch) == ch \in {" ", "\t", "\n", "\r"}

HasPrefix(s, p) == Len(s) >= Len(p) /\ SubSeq(s, 1, Len(p)) = p

\* A slice that starts one character late.
SliceFromOffByOne(s, n) == SubSeq(s, n + 2, Len(s))

\* Go's s[n:]
SliceFrom(s, n) == SubSeq(s, n + 1, Len(s))

RECURSIVE FieldsFrom(_, _, _, _)
FieldsFrom(s, i, cur, acc) ==
    IF i > Len(s)
    THEN IF cur = <<>> THEN acc ELSE Append(acc, cur)
    ELSE IF IsSpace(s[i])
         THEN FieldsFrom(s, i + 1, <<>>, IF cur = <<>> THEN acc ELSE Append(acc, cur))
         ELSE FieldsFrom(s, i + 1, Append(cur, s[i]), acc)

Fields(s) == FieldsFrom(s, 1, <<>>, <<>>)

RECURSIVE Join(_, _)
Join(parts, sep) ==
    IF parts = <<>> THEN <<>>
    ELSE IF Len(parts) = 1 THEN parts[1]
    ELSE parts[1] \o sep \o Join(Tail(parts), sep)

(***************************************************************************)
(* Colour: an RGB value with a distinguishable unset state (0); a set      *)
(* colour is its 24-bit RGB value plus one.  Text form "#rrggbb".          *)
(***************************************************************************)
HexDigits == <<"0", "1", "2", "3", "4", "5", "6", "7",
               "8", "9", "a", "b", "c", "d", "e", "f">>

IsHex(ch) == \E i \in 1..16 : HexDigits[i] = ch

HexVal(ch) == (CHOOSE i \in 1..16 : HexDigits[i] = ch) - 1

Hex2(n) == <<HexDigits[(n \div 16) + 1], HexDigits[(n % 16) + 1]>>

IsSet(c) == c # 0

Red(c) == ((c - 1) \div 65536) % 256
Green(c) == ((c - 1) \div 256) % 256
Blue(c) == (c - 1) % 256

NewColour(r, g, b) == r * 65536 + g * 256 + b + 1

ColourString(c) == <<"#">> \o Hex2(Red(c)) \o Hex2(Green(c)) \o Hex2(Blue(c))

RECURSIVE HexValue(_, _, _)
HexValue(s, i, acc) ==
    IF i > Len(s) THEN acc ELSE HexValue(s, i + 1, acc * 16 + HexVal(s[i]))

\* Returns the unset colour when the text is not "#" and six hex digits.
ParseColour(s) ==
    IF Len(s) = 7 /\ s[1] = "#" /\ \A i \in 2..7 : IsHex(s[i])
    THEN HexValue(s, 2, 0) + 1
    ELSE 0

Max3(a, b, c) == IF a >= b /\ a >= c THEN a ELSE IF b >= c THEN b ELSE c

\* Brighten (pct > 0) or darken (pct < 0) every channel by pct percent.
Brighten(c, pct) ==
    LET ch(x) == IF pct < 0 THEN (x * (100 + pct)) \div 100
                 ELSE x + ((255 - x) * pct) \div 100
    IN  NewColour(ch(Red(c)), ch(Green(c)), ch(Blue(c)))

\* Brightens a dark colour, darkens a light one.
BrightenOrDarken(c, pct) ==
    IF 2 * Max3(Red(c), Green(c), Blue(c)) < 255
    THEN Brighten(c, pct)
    ELSE Brighten(c, 0 - pct)

(***************************************************************************)
(* Trilean.                                                                *)
(***************************************************************************)
Pass == 0
Yes == 1
No == 2

Trilean == {Pass, Yes, No}

Prefix(t, s) ==
    IF t = Yes THEN s
    ELSE IF t = No THEN <<"n", "o">> \o s
    ELSE <<>>

(***************************************************************************)
(* StyleEntry.                                                             *)
(***************************************************************************)
ZeroEntry ==
    [Colour |-> 0, Background |-> 0, Border |-> 0,
     Bold |-> Pass, Italic |-> Pass, Underline |-> Pass, NoInherit |-> FALSE]

T_bold == <<"b", "o", "l", "d">>
T_italic == <<"i", "t", "a", "l", "i", "c">>
T_underline == <<"u", "n", "d", "e", "r", "l", "i", "n", "e">>
T_inherit == <<"i", "n", "h", "e", "r", "i", "t">>
T_no == <<"n", "o">>
T_bg == <<"b", "g", ":">>
T_border == <<"b", "o", "r", "d", "e", "r", ":">>
T_hash == <<"#">>

String(s) ==
    LET o1 == IF s.Bold # Pass THEN <<Prefix(s.Bold, T_bold)>> ELSE <<>>
        o2 == IF s.Italic # Pass THEN Append(o1, Prefix(s.Italic, T_italic)) ELSE o1
        o3 == IF s.Underline # Pass
              THEN Append(o2, Prefix(s.Underline, T_underline)) ELSE o2
        o4 == IF s.NoInherit THEN Append(o3, T_no \o T_inherit) ELSE o3
        o5 == IF IsSet(s.Colour) THEN Append(o4, ColourString(s.Colour)) ELSE o4
        o6 == IF IsSet(s.Background)
              THEN Append(o5, T_bg \o ColourString(s.Background)) ELSE o5
        o7 == IF IsSet(s.Border)
              THEN Append(o6, T_border \o ColourString(s.Border)) ELSE o6
    IN  Join(o7, <<" ">>)

IsZero(s) ==
    /\ s.Colour = 0 /\ s.Background = 0 /\ s.Border = 0
    /\ s.Bold = Pass /\ s.Italic = Pass /\ s.Underline = Pass
    /\ ~s.NoInherit

\* One ancestor merged into o: the body of Inherit's loop.
InheritStep(o, ancestor) ==
    [Colour |-> IF ~IsSet(o.Colour) THEN ancestor.Colour ELSE o.Colour,
     Background |-> IF ~IsSet(o.Background) THEN ancestor.Background ELSE o.Background,
     Border |-> IF ~IsSet(o.Border) THEN ancestor.Border ELSE o.Border,
     Bold |-> IF o.Bold = Pass THEN ancestor.Bold ELSE o.Bold,
     Italic |-> IF o.Italic = Pass THEN ancestor.Italic ELSE o.Italic,
     Underline |-> IF o.Underline = Pass THEN ancestor.Underline ELSE o.Underline,
     NoInherit |-> o.NoInherit]

RECURSIVE InheritLoop(_, _, _)
InheritLoop(o, ancestors, i) ==
    IF i < 1 THEN o
    ELSE IF o.NoInherit THEN o
    ELSE InheritLoop(InheritStep(o, ancestors[i]), ancestors, i - 1)

RECURSIVE InheritForward(_, _, _)
InheritForward(o, ancestors, i) ==
    IF i > Len(ancestors) THEN o
    ELSE IF o.NoInherit THEN o
    ELSE InheritForward(InheritStep(o, ancestors[i]), ancestors, i + 1)

\* Inherit visiting the ancestors oldest first.
InheritOldestFirst(s, ancestors) == InheritForward(s, ancestors, 1)

Inherit(s, ancestors) == InheritLoop(s, ancestors, Len(ancestors))

NoErr == [kind |-> "nil"]

\* One part of a descriptor applied to o: one turn of ParseStyleEntry's switch.
ParsePart(o, part) ==
    IF part = T_italic THEN [entry |-> [o EXCEPT !.Italic = Yes], err |-> NoErr]
    ELSE IF part = T_no \o T_italic THEN [entry |-> [o EXCEPT !.Italic = No], err |-> NoErr]
    ELSE IF part = T_bold THEN [entry |-> [o EXCEPT !.Bold = Yes], err |-> NoErr]
    ELSE IF part = T_no \o T_bold THEN [entry |-> [o EXCEPT !.Bold = No], err |-> NoErr]
    ELSE IF part = T_underline THEN [entry |-> [o EXCEPT !.Underline = Yes], err |-> NoErr]
    ELSE IF part = T_no \o T_underline
        THEN [entry |-> [o EXCEPT !.Underline = No], err |-> NoErr]
    ELSE IF part = T_inherit THEN [entry |-> [o EXCEPT !.NoInherit = FALSE], err |-> NoErr]
    ELSE IF part = T_no \o T_inherit
        THEN [entry |-> [o EXCEPT !.NoInherit = TRUE], err |-> NoErr]
    ELSE IF part = T_bg THEN [entry |-> [o EXCEPT !.Background = 0], err |-> NoErr]
    ELSE IF HasPrefix(part, T_bg \o T_hash)
        THEN LET c == ParseColour(SliceFrom(part, 3))
             IN  IF ~IsSet(c)
                 THEN [entry |-> ZeroEntry,
                       err |-> [kind |-> "invalid background colour", part |-> part]]
                 ELSE [entry |-> [o EXCEPT !.Background = c], err |-> NoErr]
    ELSE IF HasPrefix(part, T_border \o T_hash)
        THEN LET c == ParseColour(SliceFrom(part, 7))
             IN  IF ~IsSet(c)
                 THEN [entry |-> ZeroEntry,
                       err |-> [kind |-> "invalid border colour", part |-> part]]
                 ELSE [entry |-> [o EXCEPT !.Border = c], err |-> NoErr]
    ELSE IF HasPrefix(part, T_hash)
        THEN LET c == ParseColour(part)
             IN  IF ~IsSet(c)
                 THEN [entry |-> ZeroEntry,
                       err |-> [kind |-> "invalid colour", part |-> part]]
                 ELSE [entry |-> [o EXCEPT !.Colour = c], err |-> NoErr]
    ELSE [entry |-> ZeroEntry, err |-> [kind |-> "unknown style element", part |-> part]]

RECURSIVE ParseParts(_, _, _)
ParseParts(o, parts, i) ==
    IF i > Len(parts) THEN [entry |-> o, err |-> NoErr]
    ELSE LET r == ParsePart(o, parts[i])
         IN  IF r.err # NoErr THEN r ELSE ParseParts(r.entry, parts, i + 1)

ParseStyleEntry(entry) == ParseParts(ZeroEntry, Fields(entry), 1)


(***************************************************************************)
(* TokenType: an enumerable identifier with Category / SubCategory         *)
(* projections and a stable name <-> identifier mapping.                   *)
(***************************************************************************)
Background == -1
LineNumbers == -4
LineNumbersTable == -5
LineHighlight == -6
EOFType == 0
Keyword == 1000
Comment == 6000
CommentSingle == 6003
CommentPreproc == 6100
CommentPreprocFile == 6101
Text == 8000

TokenTypeTable ==
    <<<<Background, "Background">>, <<LineNumbers, "LineNumbers">>,
      <<LineNumbersTable, "LineNumbersTable">>, <<LineHighlight, "LineHighlight">>,
      <<EOFType, "EOFType">>, <<Keyword, "Keyword">>, <<Comment, "Comment">>,
      <<CommentSingle, "CommentSingle">>, <<CommentPreproc, "CommentPreproc">>,
      <<CommentPreprocFile, "CommentPreprocFile">>, <<Text, "Text">>>>

TokenTypes == {TokenTypeTable[i][1] : i \in 1..Len(TokenTypeTable)}

\* Go's integer division, which truncates toward zero.
TruncDiv(a, b) == IF a >= 0 THEN a \div b ELSE 0 - ((0 - a) \div b)

Category(t) == TruncDiv(t, 1000) * 1000

SubCategory(t) == TruncDiv(t, 100) * 100

\* TokenType.String
TokenTypeName(t) ==
    IF t \in TokenTypes
    THEN TokenTypeTable[CHOOSE i \in 1..Len(TokenTypeTable) : TokenTypeTable[i][1] = t][2]
    ELSE "TokenType(?)"

\* The name -> identifier lookup of the wire format.
TokenTypeString(name) ==
    IF \E i \in 1..Len(TokenTypeTable) : TokenTypeTable[i][2] = name
    THEN [ttype |-> TokenTypeTable[CHOOSE i \in 1..Len(TokenTypeTable) :
                                       TokenTypeTable[i][2] = name][1],
          err |-> NoErr]
    ELSE [ttype |-> 0, err |-> [kind |-> "does not belong to TokenType values"]]

(***************************************************************************)
(* Go maps and map iteration.                                              *)
(***************************************************************************)
EmptyMap == [x \in {} |-> 0]

MapSet(m, k, v) == [x \in DOMAIN m \cup {k} |-> IF x = k THEN v ELSE m[x]]

\* m[t] of a map[TokenType]StyleEntry: the zero entry for a missing key.
EntryAt(m, t) == IF t \in DOMAIN m THEN m[t] ELSE ZeroEntry

\* m[t] of a map[TokenType]string: the empty string for a missing key.
DescAt(m, t) == IF t \in DOMAIN m THEN m[t] ELSE <<>>

\* The orders in which a range over a map with key set S may visit it.
RECURSIVE Orders(_)
Orders(S) ==
    IF S = {} THEN {<<>>}
    ELSE UNION {{<<x>> \o p : p \in Orders(S \ {x})} : x \in S}

(***************************************************************************)
(* Style: resolution over the heap h of Style objects.                     *)
(***************************************************************************)
ZeroStyle == [Name |-> "", Theme |-> "", entries |-> EmptyMap, parent |-> Nil]

synthesisable(ttype) ==
    ttype = LineHighlight \/ ttype = LineNumbers \/ ttype = LineNumbersTable

RECURSIVE get(_, _, _)

synthesise(h, s, ttype) ==
    LET bg == get(h, s, Background)
        text == [ZeroEntry EXCEPT !.Colour = BrightenOrDarken(bg.Colour, 50)]
    IN  IF ttype = LineHighlight
        THEN [ZeroEntry EXCEPT !.Background = BrightenOrDarken(bg.Background, 10)]
        ELSE IF ttype = LineNumbers \/ ttype = LineNumbersTable
        THEN text
        ELSE ZeroEntry

get(h, s, ttype) ==
    LET o == EntryAt(h[s].entries, ttype)
    IN  IF IsZero(o) /\ h[s].parent # Nil
        THEN get(h, h[s].parent, ttype)
        ELSE IF IsZero(o) /\ synthesisable(ttype)
        THEN synthesise(h, s, ttype)
        ELSE o

\* The ancestors with Text and Background exchanged.
GetAncestorsTextFirst(h, s, ttype) ==
    <<get(h, s, Text), get(h, s, Background),
      get(h, s, Category(ttype)), get(h, s, SubCategory(ttype))>>

\* The ancestors Get hands to Inherit, oldest first.
GetAncestors(h, s, ttype) ==
    <<get(h, s, Background), get(h, s, Text),
      get(h, s, Category(ttype)), get(h, s, SubCategory(ttype))>>

Get(h, s, ttype) == Inherit(get(h, s, ttype), GetAncestors(h, s, ttype))

Has(h, s, ttype) == ~IsZero(get(h, s, ttype)) \/ synthesisable(ttype)

RECURSIVE Types(_, _)
Types(h, s) ==
    DOMAIN h[s].entries \cup (IF h[s].parent # Nil THEN Types(h, h[s].parent) ELSE {})

\* Style.Builder
StyleBuilderOf(h, s) ==
    [name |-> h[s].Name, theme |-> h[s].Theme, entries |-> EmptyMap, parent |-> s]

(***************************************************************************)
(* StyleBuilder: each method as a function of the builder value.           *)
(***************************************************************************)
BuilderNew(name, theme) ==
    [name |-> name, theme |-> theme, entries |-> EmptyMap, parent |-> Nil]

BuilderAdd(b, ttype, entry) == [b EXCEPT !.entries = MapSet(@, ttype, entry)]

BuilderAddEntry(b, ttype, entry) == [b EXCEPT !.entries = MapSet(@, ttype, String(entry))]

BuilderAddAll(b, entries) ==
    [b EXCEPT !.entries =
        [x \in DOMAIN @ \cup DOMAIN entries |->
            IF x \in DOMAIN entries THEN entries[x] ELSE @[x]]]

BuilderGet(h, b, ttype) ==
    LET entry == ParseStyleEntry(DescAt(b.entries, ttype)).entry
    IN  IF b.parent # Nil
        THEN Inherit(entry, <<Get(h, b.parent, ttype)>>)
        ELSE entry

\* The transforms handed to Transform.
TransformFns == {"swap", "clear"}

Apply(fn, e) ==
    IF fn = "swap" THEN [e EXCEPT !.Colour = e.Background, !.Background = e.Colour]
    ELSE ZeroEntry

\* The types map without the parent's Types().
TransformTypesOwnOnly(h, b) == DOMAIN b.entries

\* The key set of Transform's types map.
TransformTypes(h, b) ==
    DOMAIN b.entries \cup (IF b.parent # Nil THEN Types(h, b.parent) ELSE {})

RECURSIVE TransformLoop(_, _, _, _, _)
TransformLoop(h, b, order, i, fn) ==
    IF i > Len(order) THEN b
    ELSE TransformLoop(h, BuilderAddEntry(b, order[i], Apply(fn, BuilderGet(h, b, order[i]))),
                       order, i + 1, fn)

\* Transform, its types map visited in the given order.
BuilderTransform(h, b, order, fn) == TransformLoop(h, b, order, 1, fn)

\* Build's loop skipping a descriptor that fails to parse.
RECURSIVE BuildLoopSkipInvalid(_, _, _, _)
BuildLoopSkipInvalid(style, b, order, i) ==
    IF i > Len(order) THEN [style |-> <<style>>, err |-> NoErr]
    ELSE LET r == ParseStyleEntry(b.entries[order[i]])
         IN  IF r.err # NoErr
             THEN BuildLoopSkipInvalid(style, b, order, i + 1)
             ELSE BuildLoopSkipInvalid([style EXCEPT !.entries = MapSet(@, order[i], r.entry)],
                                       b, order, i + 1)

RECURSIVE BuildLoop(_, _, _, _)
BuildLoop(style, b, order, i) ==
    IF i > Len(order) THEN [style |-> <<style>>, err |-> NoErr]
    ELSE LET r == ParseStyleEntry(b.entries[order[i]])
         IN  IF r.err # NoErr
             THEN [style |-> <<>>,
                   err |-> [kind |-> "invalid entry for", ttype |-> order[i],
                            cause |-> r.err]]
             ELSE BuildLoop([style EXCEPT !.entries = MapSet(@, order[i], r.entry)],
                            b, order, i + 1)

\* Build, the staged descriptors visited in the given order: the Style built
\* (<<>> for nil) and the error.
BuilderBuild(b, order) ==
    BuildLoop([Name |-> b.name, Theme |-> b.theme, entries |-> EmptyMap,
               parent |-> b.parent], b, order, 1)

\* Build writing its entries into the parent's mapping as well.
StoreStyleIntoParent(h, style) ==
    IF style.parent # Nil
    THEN Append([h EXCEPT ![style.parent].entries =
                    [x \in DOMAIN @ \cup DOMAIN style.entries |->
                        IF x \in DOMAIN style.entries THEN style.entries[x] ELSE @[x]]],
                style)
    ELSE Append(h, style)

\* The heap after Build's new Style object is allocated.
StoreStyle(h, style) == Append(h, style)

(***************************************************************************)
(* The XML wire codec.  A document is its root element: a name, a list of  *)
(* attributes and a list of child elements.                                *)
(***************************************************************************)
XAttr(n, v) == [name |-> n, value |-> v]

RECURSIVE SortTypes(_)
SortTypes(S) ==
    IF S = {} THEN <<>>
    ELSE LET m == CHOOSE x \in S : \A y \in S : x <= y
         IN  <<m>> \o SortTypes(S \ {m})

MarshalXMLDoc(h, s) ==
    IF h[s].parent # Nil
    THEN [doc |-> <<>>, err |-> [kind |-> "cannot marshal style with parent"]]
    ELSE LET sorted == SortTypes(DOMAIN h[s].entries)
         IN  [doc |-> <<[name |-> "style",
                         attr |-> <<XAttr("name", h[s].Name), XAttr("theme", h[s].Theme)>>,
                         children |->
                            [i \in 1..Len(sorted) |->
                                [name |-> "entry",
                                 attr |-> <<XAttr("type", TokenTypeName(sorted[i])),
                                            XAttr("style", String(h[s].entries[sorted[i]]))>>]]]>>,
               err |-> NoErr]

\* The root attributes read with both branches assigning the name.
RECURSIVE UnmarshalRootAttrsNameOnly(_, _, _)
UnmarshalRootAttrsNameOnly(st, attrs, i) ==
    IF i > Len(attrs) THEN [style |-> st, err |-> NoErr]
    ELSE IF attrs[i].name = "name" \/ attrs[i].name = "theme"
         THEN UnmarshalRootAttrsNameOnly([st EXCEPT !.Name = attrs[i].value], attrs, i + 1)
    ELSE [style |-> st, err |-> [kind |-> "unexpected attribute", name |-> attrs[i].name]]

RECURSIVE UnmarshalRootAttrs(_, _, _)
UnmarshalRootAttrs(st, attrs, i) ==
    IF i > Len(attrs) THEN [style |-> st, err |-> NoErr]
    ELSE IF attrs[i].name = "name"
         THEN UnmarshalRootAttrs([st EXCEPT !.Name = attrs[i].value], attrs, i + 1)
    ELSE IF attrs[i].name = "theme"
         THEN UnmarshalRootAttrs([st EXCEPT !.Theme = attrs[i].value], attrs, i + 1)
    ELSE [style |-> st, err |-> [kind |-> "unexpected attribute", name |-> attrs[i].name]]

RECURSIVE UnmarshalEntryAttrs(_, _, _, _)
UnmarshalEntryAttrs(attrs, i, ttype, entry) ==
    IF i > Len(attrs) THEN [ttype |-> ttype, entry |-> entry, err |-> NoErr]
    ELSE IF attrs[i].name = "type"
         THEN LET r == TokenTypeString(attrs[i].value)
              IN  IF r.err # NoErr THEN [ttype |-> r.ttype, entry |-> entry, err |-> r.err]
                  ELSE UnmarshalEntryAttrs(attrs, i + 1, r.ttype, entry)
    ELSE IF attrs[i].name = "style"
         THEN LET r == ParseStyleEntry(attrs[i].value)
              IN  IF r.err # NoErr THEN [ttype |-> ttype, entry |-> r.entry, err |-> r.err]
                  ELSE UnmarshalEntryAttrs(attrs, i + 1, ttype, r.entry)
    ELSE [ttype |-> ttype, entry |-> entry,
          err |-> [kind |-> "unexpected attribute", name |-> attrs[i].name]]

RECURSIVE UnmarshalChildren(_, _, _)
UnmarshalChildren(st, children, i) ==
    IF i > Len(children) THEN [style |-> st, err |-> NoErr]
    ELSE IF children[i].name # "entry"
         THEN [style |-> st,
               err |-> [kind |-> "unexpected element", name |-> children[i].name]]
    ELSE LET r == UnmarshalEntryAttrs(children[i].attr, 1, 0, ZeroEntry)
         IN  IF r.err # NoErr THEN [style |-> st, err |-> r.err]
             ELSE UnmarshalChildren([st EXCEPT !.entries = MapSet(@, r.ttype, r.entry)],
                                    children, i + 1)

\* UnmarshalXML on the Style object st: the object as the call leaves it, and
\* the error.
UnmarshalXML(st, doc) ==
    LET a == UnmarshalRootAttrs(st, doc.attr, 1)
    IN  IF a.err # NoErr THEN a
        ELSE IF a.style.Name = ""
             THEN [style |-> a.style, err |-> [kind |-> "missing style name attribute"]]
        ELSE IF a.style.Theme = ""
             THEN [style |-> a.style, err |-> [kind |-> "missing style theme attribute"]]
        ELSE UnmarshalChildren([a.style EXCEPT !.entries = EmptyMap], doc.children, 1)

\* The *Style that NewXMLStyle returns, given the address of the object it
\* allocated and the error of Decode.
NewXMLStyleResult(addr, err) == addr

(***************************************************************************)
(* Input domains of the pure-function specifications.                      *)
(***************************************************************************)
\* #000000, #ff0000, #0a1b2c, #ffffff
SampleColours ==
    <<NewColour(0, 0, 0), NewColour(255, 0, 0), NewColour(10, 27, 44),
      NewColour(255, 255, 255)>>

Colours == {0} \cup {SampleColours[i] : i \in 1..NumColours}

Entries ==
    [Colour : Colours, Background : Colours, Border : Colours,
     Bold : Trilean, Italic : Trilean, Underline : Trilean, NoInherit : BOOLEAN]

InheritReceivers ==
    [Colour : Colours, Background : {0, SampleColours[1]}, Border : {0, SampleColours[2]},
     Bold : Trilean, Italic : {Pass, Yes}, Underline : {Pass, No}, NoInherit : BOOLEAN]

AncEntries ==
    {ZeroEntry,
     [ZeroEntry EXCEPT !.Colour = SampleColours[1], !.Bold = No],
     [ZeroEntry EXCEPT !.Colour = SampleColours[2], !.Background = SampleColours[1],
                       !.Italic = No],
     [ZeroEntry EXCEPT !.Border = SampleColours[1], !.Underline = Yes,
                       !.NoInherit = TRUE],
     [ZeroEntry EXCEPT !.Background = SampleColours[2], !.Border = SampleColours[2],
                       !.Bold = Yes, !.Italic = Yes, !.Underline = No]}

AncLists == UNION {[1..n -> AncEntries] : n \in 0..MaxAnc}

NoCall == [op |-> "none"]

(***************************************************************************)
(* SpecFormat: String and ParseStyleEntry applied to every entry.          *)
(***************************************************************************)
InitFormat ==
    /\ entryIn \in Entries
    /\ ancIn = <<>>
    /\ out = NoCall
    /\ styles = <<>> /\ builder = <<>> /\ built = {} /\ wire = <<>>
    /\ ret = NoCall /\ nops = 0

CallString ==
    /\ out.op = "none"
    /\ out' = [op |-> "String", text |-> String(entryIn)]
    /\ UNCHANGED <<progVars, entryIn, ancIn>>

CallParseStyleEntry ==
    /\ out.op = "String"
    /\ LET r == ParseStyleEntry(out.text)
       IN  out' = [op |-> "ParseStyleEntry", text |-> out.text,
                   entry |-> r.entry, err |-> r.err]
    /\ UNCHANGED <<progVars, entryIn, ancIn>>

NextFormat == CallString \/ CallParseStyleEntry

SpecFormat == InitFormat /\ [][NextFormat]_vars

(***************************************************************************)
(* SpecInherit: Inherit applied to a receiver and an ancestor list.        *)
(***************************************************************************)
InitInherit ==
    /\ entryIn \in InheritReceivers
    /\ ancIn \in AncLists
    /\ out = NoCall
    /\ styles = <<>> /\ builder = <<>> /\ built = {} /\ wire = <<>>
    /\ ret = NoCall /\ nops = 0

CallInherit ==
    /\ out.op = "none"
    /\ out' = [op |-> "Inherit", entry |-> Inherit(entryIn, ancIn)]
    /\ UNCHANGED <<progVars, entryIn, ancIn>>

NextInherit == CallInherit

SpecInherit == InitInherit /\ [][NextInherit]_vars

(***************************************************************************)
(* The calls of the builder / style life cycle.                            *)
(***************************************************************************)
NewStyleBuilder(name, theme) ==
    /\ nops < MaxOps
    /\ builder' = <<BuilderNew(name, theme)>>
    /\ ret' = [op |-> "NewStyleBuilder"]
    /\ nops' = nops + 1
    /\ UNCHANGED <<styles, built, wire, pureVars>>

Builder(s) ==
    /\ nops < MaxOps
    /\ s \in 1..Len(styles)
    /\ builder' = <<StyleBuilderOf(styles, s)>>
    /\ ret' = [op |-> "Builder", s |-> s]
    /\ nops' = nops + 1
    /\ UNCHANGED <<styles, built, wire, pureVars>>

Add(ttype, entry) ==
    /\ nops < MaxOps
    /\ builder # <<>>
    /\ builder' = <<BuilderAdd(builder[1], ttype, entry)>>
    /\ ret' = [op |-> "Add"]
    /\ nops' = nops + 1
    /\ UNCHANGED <<styles, built, wire, pureVars>>

AddAll(entries) ==
    /\ nops < MaxOps
    /\ builder # <<>>
    /\ builder' = <<BuilderAddAll(builder[1], entries)>>
    /\ ret' = [op |-> "AddAll"]
    /\ nops' = nops + 1
    /\ UNCHANGED <<styles, built, wire, pureVars>>

AddEntry(ttype, entry) ==
    /\ nops < MaxOps
    /\ builder # <<>>
    /\ builder' = <<BuilderAddEntry(builder[1], ttype, entry)>>
    /\ ret' = [op |-> "AddEntry"]
    /\ nops' = nops + 1
    /\ UNCHANGED <<styles, built, wire, pureVars>>

Transform(fn) ==
    /\ nops < MaxOps
    /\ builder # <<>>
    /\ \E order \in Orders(TransformTypes(styles, builder[1])) :
          builder' = <<BuilderTransform(styles, builder[1], order, fn)>>
    /\ ret' = [op |-> "Transform", fn |-> fn, pre |-> builder[1]]
    /\ nops' = nops + 1
    /\ UNCHANGED <<styles, built, wire, pureVars>>

\* Build called on the builder value b: the heap, the history and the result.
BuildOn(b) ==
    \E order \in Orders(DOMAIN b.entries) :
        LET r == BuilderBuild(b, order)
        IN  IF r.style = <<>>
            THEN /\ ret' = [op |-> "Build", b |-> b, style |-> Nil, err |-> r.err]
                 /\ UNCHANGED <<styles, built>>
            ELSE /\ styles' = StoreStyle(styles, r.style[1])
                 /\ built' = built \cup {Len(styles) + 1}
                 /\ ret' = [op |-> "Build", b |-> b, style |-> Len(styles) + 1,
                            err |-> r.err]

Build ==
    /\ nops < MaxOps
    /\ builder # <<>>
    /\ BuildOn(builder[1])
    /\ nops' = nops + 1
    /\ UNCHANGED <<builder, wire, pureVars>>

\* NewStyle(name, theme, entries) is NewStyleBuilder(name, theme).AddAll(entries).Build()
NewStyle(name, theme, entries) ==
    /\ nops < MaxOps
    /\ BuildOn(BuilderAddAll(BuilderNew(name, theme), entries))
    /\ nops' = nops + 1
    /\ UNCHANGED <<builder, wire, pureVars>>

MarshalXML(s) ==
    /\ nops < MaxOps
    /\ s \in 1..Len(styles)
    /\ LET r == MarshalXMLDoc(styles, s)
       IN  /\ wire' = IF r.err = NoErr
                      THEN Append(wire, [src |-> s, doc |-> r.doc[1]])
                      ELSE wire
           /\ ret' = [op |-> "MarshalXML", s |-> s, err |-> r.err]
    /\ nops' = nops + 1
    /\ UNCHANGED <<styles, builder, built, pureVars>>

\* NewXMLStyle reading document doc, which MarshalXML wrote from Style src
\* (Nil for a document written by hand).
NewXMLStyle(doc, src) ==
    /\ nops < MaxOps
    /\ LET r == UnmarshalXML(ZeroStyle, doc)
       IN  /\ styles' = Append(styles, r.style)
           /\ ret' = [op |-> "NewXMLStyle", src |-> src,
                      addr |-> Len(styles) + 1,
                      style |-> NewXMLStyleResult(Len(styles) + 1, r.err),
                      err |-> r.err]
    /\ nops' = nops + 1
    /\ UNCHANGED <<builder, built, wire, pureVars>>

(***************************************************************************)
(* Inputs of the life cycle.                                               *)
(***************************************************************************)
Black == NewColour(0, 0, 0)
RedC == NewColour(255, 0, 0)
Navy == NewColour(10, 27, 44)
White == NewColour(255, 255, 255)

Sp == <<" ">>
D_empty == <<>>
D_bold == T_bold
D_bogus == <<"b", "o", "g", "u", "s">>
D_bgRed == T_bg \o ColourString(RedC)

\* {Background: "#ffffff bg:#000000", Text: "#0a1b2c", Comment: "italic #ff0000"}
BaseEntries ==
    (Background :> (ColourString(White) \o Sp \o T_bg \o ColourString(Black)))
    @@ (Text :> ColourString(Navy))
    @@ (Comment :> (T_italic \o Sp \o ColourString(RedC)))

\* {CommentPreproc: "noitalic bold bg:#ff0000", CommentPreprocFile: "underline"}
PreprocEntries ==
    (CommentPreproc :> (T_no \o T_italic \o Sp \o T_bold \o Sp \o D_bgRed))
    @@ (CommentPreprocFile :> T_underline)

SampleStyleEntries == {BaseEntries, PreprocEntries}

\* The (category, descriptor) pairs handed to Add.
AddInputs ==
    {<<Background, D_bgRed>>, <<Background, D_bogus>>, <<Background, D_empty>>,
     <<Text, D_bold>>, <<Text, D_bogus>>, <<Text, D_empty>>}

AddEntryTypes == {LineHighlight}
SampleEntries == {[ZeroEntry EXCEPT !.Colour = Black, !.NoInherit = TRUE]}

\* The (name, theme) pairs handed to NewStyle: both set, no name, no theme.
NameThemes == {<<"base", "dark">>, <<"", "dark">>, <<"base", "">>}

(***************************************************************************)
(* Spec: the builder / style life cycle.                                   *)
(***************************************************************************)
Init ==
    /\ styles = <<>> /\ builder = <<>> /\ built = {} /\ wire = <<>>
    /\ ret = NoCall /\ nops = 0
    /\ entryIn = ZeroEntry /\ ancIn = <<>> /\ out = NoCall

Next ==
    \/ \E m \in SampleStyleEntries : NewStyle("base", "dark", m)
    \/ NewStyleBuilder("base", "dark")
    \/ \E s \in 1..Len(styles) : Builder(s)
    \/ \E a \in AddInputs : Add(a[1], a[2])
    \/ \E m \in SampleStyleEntries : AddAll(m)
    \/ \E t \in AddEntryTypes, e \in SampleEntries : AddEntry(t, e)
    \/ \E fn \in TransformFns : Transform(fn)
    \/ Build

Spec == Init /\ [][Next]_vars

(***************************************************************************)
(* SpecWire: Styles built, written with MarshalXML and read back with      *)
(* NewXMLStyle, next to documents written by hand.                         *)
(***************************************************************************)
D_boldBlue == T_bold \o Sp \o ColourString(NewColour(0, 0, 255))

\* {Text: "#ffffff", Keyword: "bold #0000ff"}
ExampleEntries == (Text :> ColourString(White)) @@ (Keyword :> D_boldBlue)

\* {Background: "bg:#ff0000", LineHighlight: ""}
SparseEntries == (Background :> D_bgRed) @@ (LineHighlight :> D_empty)

WireStyleEntries == {ExampleEntries, SparseEntries}

XDoc(attrs, children) == [name |-> "style", attr |-> attrs, children |-> children]

XEntry(type, style) ==
    [name |-> "entry", attr |-> <<XAttr("type", type), XAttr("style", style)>>]

NameTheme == <<XAttr("name", "base"), XAttr("theme", "dark")>>

HandDocs ==
    << \* no theme attribute
       XDoc(<<XAttr("name", "base")>>, <<>>),
       \* an unresolvable category name after a good entry
       XDoc(NameTheme, <<XEntry("Text", D_bold), XEntry("Bogus", D_bold)>>),
       \* an invalid descriptor
       XDoc(NameTheme, <<XEntry("Text", D_bogus)>>),
       \* an unexpected root attribute
       XDoc(<<XAttr("name", "base"), XAttr("theme", "dark"), XAttr("version", "1")>>, <<>>),
       \* an unknown child element
       XDoc(NameTheme, <<XEntry("Text", D_bold), [name |-> "rule", attr |-> <<>>]>>),
       \* an unexpected child attribute
       XDoc(NameTheme,
            <<[name |-> "entry",
               attr |-> <<XAttr("type", "Text"), XAttr("style", D_bold),
                          XAttr("id", "x")>>]>>),
       \* a well-formed document with an empty descriptor
       XDoc(NameTheme, <<XEntry("Text", D_empty), XEntry("Comment", D_bold)>>) >>

NextWire ==
    \/ \E nt \in NameThemes, m \in WireStyleEntries : NewStyle(nt[1], nt[2], m)
    \/ \E s \in 1..Len(styles) : MarshalXML(s)
    \/ \E i \in 1..Len(wire) : NewXMLStyle(wire[i].doc, wire[i].src)
    \/ \E i \in 1..Len(HandDocs) : NewXMLStyle(HandDocs[i], Nil)

SpecWire == Init /\ [][NextWire]_vars

(***************************************************************************)
(* Vocabulary of the claims.                                               *)
(***************************************************************************)
ColourFields == {"Colour", "Background", "Border"}
TrileanFields == {"Bold", "Italic", "Underline"}
StyleFields == ColourFields \cup TrileanFields

\* Whether entry e carries field f (a set colour, a Trilean other than Pass).
Carries(e, f) == IF f \in ColourFields THEN e[f] # 0 ELSE e[f] # Pass

\* The value an entry has for a field it does not carry.
Unset(f) == IF f \in ColourFields THEN 0 ELSE Pass

(* C6: for every StyleEntry e, ParseStyleEntry(e.String()) succeeds and
   returns an entry equal to e in all seven fields. *)
C6_EntryRoundTrip ==
    out.op = "ParseStyleEntry" => (out.err = NoErr /\ out.entry = entryIn)

C6_Witness ==
    /\ out.op = "ParseStyleEntry"
    /\ entryIn.NoInherit /\ entryIn.Bold = No /\ entryIn.Italic = Yes
    /\ entryIn.Colour = SampleColours[1]
    /\ entryIn.Background = SampleColours[2]
    /\ entryIn.Border # 0
    /\ out.entry = entryIn

(* C2: e.Inherit(ancestors...) keeps every field set on e; if e.NoInherit the
   result is e itself; otherwise a field unset on e takes the value of the
   nearest ancestor (highest index) that has it set, or stays unset if none
   has; the result's NoInherit is e's. *)
C2_InheritNearestWins ==
    out.op = "Inherit" =>
        LET e == entryIn
            r == out.entry
            having(f) == {i \in 1..Len(ancIn) : Carries(ancIn[i], f)}
            nearest(f) == CHOOSE i \in having(f) : \A j \in having(f) : j <= i
        IN  /\ r.NoInherit = e.NoInherit
            /\ e.NoInherit => r = e
            /\ \A f \in StyleFields :
                  /\ Carries(e, f) => r[f] = e[f]
                  /\ (~Carries(e, f) /\ ~e.NoInherit) =>
                        IF having(f) = {} THEN r[f] = Unset(f)
                        ELSE r[f] = ancIn[nearest(f)][f]

C2_Witness ==
    /\ out.op = "Inherit"
    /\ Len(ancIn) = 2
    /\ ~entryIn.NoInherit /\ entryIn.Colour = 0 /\ entryIn.Bold = Yes
    /\ ancIn[1].Colour # 0 /\ ancIn[2].Colour # 0
    /\ ancIn[1].Colour # ancIn[2].Colour
    /\ ancIn[1].Bold = No
    /\ out.entry.Colour = ancIn[2].Colour
    /\ out.entry.Bold = Yes

\* The addresses of s and of its ancestors.
RECURSIVE Chain(_, _)
Chain(h, s) == {s} \cup (IF h[s].parent # Nil THEN Chain(h, h[s].parent) ELSE {})

\* What a caller can read from Style s: Get and Has per category, and Types.
Observable(h, s) ==
    [get |-> [t \in TokenTypes |-> Get(h, s, t)],
     has |-> [t \in TokenTypes |-> Has(h, s, t)],
     types |-> Types(h, s)]

(* C1: for every built Style s and category t whose s.get(t) does not have
   NoInherit set, each field of s.Get(t) is the first set / non-Pass value in
   the order s.get(t), s.get(t.SubCategory()), s.get(t.Category()),
   s.get(Text), s.get(Background), and unset / Pass if none carries it. *)
C1_GetFallbackOrder ==
    \A s \in built : \A t \in TokenTypes :
        LET tiers == <<get(styles, s, t), get(styles, s, SubCategory(t)),
                       get(styles, s, Category(t)), get(styles, s, Text),
                       get(styles, s, Background)>>
            having(f) == {i \in 1..5 : Carries(tiers[i], f)}
            first(f) == CHOOSE i \in having(f) : \A j \in having(f) : i <= j
        IN  ~tiers[1].NoInherit =>
                \A f \in StyleFields :
                    Get(styles, s, t)[f] =
                        IF having(f) = {} THEN Unset(f) ELSE tiers[first(f)][f]

C1_Witness ==
    \E s \in built :
        LET g == Get(styles, s, CommentPreprocFile)
            k == Get(styles, s, CommentSingle)
        IN  /\ g.Underline = Yes                      \* its own entry
            /\ g.Bold = Yes /\ g.Italic = No          \* the sub-category, over the category
            /\ g.Background = RedC                    \* the sub-category, over Background
            /\ g.Colour = RedC                        \* the category, over Text
            /\ get(styles, s, Keyword) = ZeroEntry
            /\ Get(styles, s, Keyword).Colour = Navy  \* Text, over Background
            /\ Get(styles, s, Keyword).Background = Black
            /\ k.Italic = Yes /\ k.Colour = RedC

(* C3: Build is all-or-nothing: if a staged descriptor fails to parse, Build
   returns nil and an error naming an offending category, whatever the other
   descriptors and the visiting order; if all parse, it returns a Style whose
   own entries are exactly the parsed staged descriptors and whose name, theme
   and parent are the builder's. *)
C3_BuildAllOrNothing ==
    ret.op = "Build" =>
        LET b == ret.b
            bad == {t \in DOMAIN b.entries : ParseStyleEntry(b.entries[t]).err # NoErr}
        IN  IF bad # {}
            THEN /\ ret.style = Nil
                 /\ ret.err.kind = "invalid entry for"
                 /\ ret.err.ttype \in bad
            ELSE /\ ret.err = NoErr
                 /\ ret.style \in 1..Len(styles)
                 /\ styles[ret.style].entries =
                        [t \in DOMAIN b.entries |-> ParseStyleEntry(b.entries[t]).entry]
                 /\ styles[ret.style].parent = b.parent
                 /\ styles[ret.style].Name = b.name
                 /\ styles[ret.style].Theme = b.theme

C3_Witness ==
    /\ ret.op = "Build"
    /\ ret.style = Nil
    /\ \E t \in DOMAIN ret.b.entries : ret.b.entries[t] = D_bold
    /\ \E t \in DOMAIN ret.b.entries : ret.b.entries[t] = D_bogus
    /\ ret.err.ttype = Background

(* C4: a built Style is immutable: no later call (Add, AddAll, AddEntry,
   Transform, Build, Builder, building children) changes what Get, Has and
   Types return for it. *)
C4_BuiltStyleImmutable ==
    [][\A s \in built :
          /\ s \in 1..Len(styles')
          /\ Observable(styles', s) = Observable(styles, s)]_vars

C4_Witness ==
    /\ ret.op = "Build"
    /\ ret.style # Nil
    /\ ret.b.parent \in built
    /\ \E t \in DOMAIN styles[ret.style].entries \cap DOMAIN styles[ret.b.parent].entries :
          /\ styles[ret.style].entries[t] # styles[ret.b.parent].entries[t]
          /\ Get(styles, ret.style, t) # Get(styles, ret.b.parent, t)

(* C8: Transform(fn) replaces, for every category t in the union of the staged
   categories and the parent's Types(), the staged descriptor with the text of
   fn(G(t)), G(t) being builder.Get(t) before the call, whatever the visiting
   order; name, theme and parent are unchanged. *)
C8_TransformAllTypes ==
    ret.op = "Transform" =>
        LET pre == ret.pre
            post == builder[1]
            union == DOMAIN pre.entries \cup
                     (IF pre.parent # Nil THEN Types(styles, pre.parent) ELSE {})
        IN  /\ post.entries =
                  [t \in union |-> String(Apply(ret.fn, BuilderGet(styles, pre, t)))]
            /\ post.name = pre.name
            /\ post.theme = pre.theme
            /\ post.parent = pre.parent

C8_Witness ==
    /\ ret.op = "Transform"
    /\ ret.fn = "swap"
    /\ ret.pre.parent # Nil
    /\ DOMAIN ret.pre.entries # {}
    /\ \E t \in Types(styles, ret.pre.parent) \ DOMAIN ret.pre.entries :
          builder[1].entries[t] # <<>>
    /\ \E t \in DOMAIN ret.pre.entries :
          builder[1].entries[t] # ret.pre.entries[t]

(* C9: for a Style s in whose chain no level has a non-zero LineHighlight
   entry, s.get(LineHighlight) is the entry whose only set field is
   Background = the 10% adjustment of s.get(Background).Background, the
   Background entry as resolved from s itself; likewise LineNumbers and
   LineNumbersTable from the foreground slot of s.get(Background). *)
C9_SynthesisFromOwnBackground ==
    \A s \in built :
        LET bg == get(styles, s, Background)
            none(t) == \A a \in Chain(styles, s) : IsZero(EntryAt(styles[a].entries, t))
        IN  /\ none(LineHighlight) =>
                get(styles, s, LineHighlight) =
                    [ZeroEntry EXCEPT !.Background = BrightenOrDarken(bg.Background, 10)]
            /\ \A t \in {LineNumbers, LineNumbersTable} :
                none(t) =>
                    get(styles, s, t) =
                        [ZeroEntry EXCEPT !.Colour = BrightenOrDarken(bg.Colour, 50)]

(* C10: after any sequence of builder calls followed by a successful Build,
   the Style's own mapping contains only categories whose entry is non-zero. *)
C10_OwnEntriesNonZero ==
    \A s \in built : \A t \in DOMAIN styles[s].entries : ~IsZero(styles[s].entries[t])

(* C5 as stated: for any parent-less Style produced by Build, encoding it and
   decoding the result succeeds and yields a Style with the same name, theme
   and Get(t) for every category t that had an entry. *)
C5_WireRoundTripAnyStyle ==
    (ret.op = "NewXMLStyle" /\ ret.src \in built) =>
        /\ ret.err = NoErr
        /\ styles[ret.addr].Name = styles[ret.src].Name
        /\ styles[ret.addr].Theme = styles[ret.src].Theme
        /\ \A t \in DOMAIN styles[ret.src].entries :
              Get(styles, ret.addr, t) = Get(styles, ret.src, t)

(* C5 as amended: the round trip holds for any parent-less Style produced by
   Build whose name and theme are both non-empty. *)
C5_WireRoundTripNamed ==
    (/\ ret.op = "NewXMLStyle" /\ ret.src \in built
     /\ styles[ret.src].Name # "" /\ styles[ret.src].Theme # "") =>
        /\ ret.err = NoErr
        /\ ret.style = ret.addr
        /\ styles[ret.addr].Name = styles[ret.src].Name
        /\ styles[ret.addr].Theme = styles[ret.src].Theme
        /\ styles[ret.addr].parent = Nil
        /\ \A t \in DOMAIN styles[ret.src].entries :
              Get(styles, ret.addr, t) = Get(styles, ret.src, t)

C5_Witness ==
    /\ ret.op = "NewXMLStyle" /\ ret.src \in built
    /\ ret.err = NoErr
    /\ styles[ret.src].Name = "base" /\ styles[ret.src].Theme = "dark"
    /\ DOMAIN styles[ret.src].entries = {Text, Keyword}
    /\ Get(styles, ret.addr, Keyword).Bold = Yes
    /\ Get(styles, ret.addr, Keyword).Colour = NewColour(0, 0, 255)
    /\ Get(styles, ret.addr, Text).Colour = White

(* C7: decoding is all-or-nothing: whenever decoding fails, the caller of
   NewXMLStyle observes no Style at all, in particular none that carries the
   name, theme or entries read before the failing element. *)
C7_DecodeAllOrNothing ==
    (ret.op = "NewXMLStyle" /\ ret.err # NoErr) => ret.style = Nil

=============================================================================
